---- MODULE Spec2Model ----
(***************************************************************************)
(* Model of src/webapp/azext_webapp/tunnel.py: class TunnelServer.         *)
(*                                                                         *)
(*   - __init__ / is_port_open: port probe followed by socket + bind       *)
(*   - is_port_set_to_default: HTTP status probe                           *)
(*   - listen: accept -> create_connection -> two threads -> two joins     *)
(*   - listen_to_client: local socket -> websocket pump                    *)
(*   - listen_to_web_socket: websocket -> local socket pump                *)
(*                                                                         *)
(* Every accepted client gets a pair id k (the k-th accept).  The socket   *)
(* object returned by that accept is client[k], the websocket object       *)
(* opened after it is ws[k]; the two threads started for pair k work on    *)
(* the objects named in their args.  The debugger process and the remote   *)
(* service are the environment.                                            *)
(***************************************************************************)
EXTENDS Integers, Sequences, FiniteSets, TLC

\* ------------------------------------------------------------------ bounds
MaxPairs == 2         \* accepts modelled
MaxTraffic == 2       \* bytes written by debuggers plus messages sent by the remote, whole session
MaxFairPairs == 1     \* the same two, for the behaviours under fairness (FairSpec)
MaxFairTraffic == 1
MaxEnvFlips == 1      \* times another process starts/stops listening on the port
MaxTokens == 3        \* tokens in a status response body

\* ------------------------------------------------------- program constants
BufSize == 4096       \* bytearray(4096) / recv_into(buf, 4096)
HTTP_OK == 200        \* r.status != 200

Pairs == 1..MaxPairs
Ports == {8000, 8001, 8002}
Byte == {65, 66}
\* remote messages: the empty message, one byte, two bytes
Messages == {<<>>, <<65>>, <<66, 65>>}
HttpStatuses == {200, 404, 503}
Tokens == {<<"2", "2">>, <<"F", "A", "I", "L">>, <<"f", "a", "i", "l">>, <<"x">>}

VARIABLES
    \* TunnelServer.__init__
    local_port,     \* self.local_port
    ctorPc,         \* "probe" | "bind" | "done" | "raised"
    ctorError,      \* "none" | "PortUnavailable" | "OSError"
    occupied,       \* the ports another process listens on
    occAtProbe,     \* local_port was occupied when probed: "unknown" | TRUE | FALSE
    envFlips,       \* times a listener on some port came or went
    sock,           \* self.sock: "none" | "created" | "bound" | "listening"
    portOpen,       \* what is_port_open() returned: "none" | TRUE | FALSE
    \* a second TunnelServer(local_port, ...) constructed on the same machine
    rivalPc,        \* "probe" | "bind" | "done" | "raised"
    rivalSock,      \* its self.sock: "none" | "created" | "bound"
    \* TunnelServer.listen
    loopPc,         \* "idle" | "accept" | "connect" | "spawn" | "start_ws"
                    \* | "join_debugger" | "join_ws" | "raised"
    index,          \* local variable index
    nPairs,         \* accepts so far
    selfClient,     \* self.client: the socket object of the latest accept (0: none yet)
    selfWs,         \* self.ws: the websocket object of the latest successful open (0: none yet)
    opens,          \* opens[k]: create_connection calls made for accept k
    \* per accepted connection
    client,         \* client[k]: [st: "none"|"open"|"closed", closes: Nat]
    ws,             \* ws[k]:     [st: "none"|"open"|"closed", closes: Nat]
    cpc,            \* listen_to_client thread of pair k
    wpc,            \* listen_to_web_socket thread of pair k
    cargs,          \* args of the listen_to_client thread: [client, ws, index]
    wargs,          \* args of the listen_to_web_socket thread: [client, ws, index]
    cfault,         \* what listen_to_client's except clause caught: "none" | "timeout" | "error"
    cbuf,           \* responseData held by listen_to_client
    wbuf,           \* response held by listen_to_web_socket
    \* environment: debugger and remote service
    clientIn,       \* bytes written by the debugger, not yet read
    clientEof,      \* the debugger closed its end: the open local socket is at EOF
    wsIn,           \* messages sent by the remote, not yet received
    remoteClosed,   \* the remote closed the open stream
    \* observations
    reads,          \* chunks returned by client.recv_into, in order
    wsSent,         \* messages passed to ws_socket.send_binary, in order
    wsRecvd,        \* non-empty messages returned by ws_socket.recv, in order
    clientOut,      \* bytes written to the local socket by client.sendall
    \* is_port_set_to_default
    probePc,        \* "idle" | "returned" | "raised"
    probeStatus,    \* r.status
    probeBody,      \* r.read().decode('utf-8')
    probeRet,       \* "none" | TRUE | FALSE
    probeWarned,    \* logger.warning was called
    \* the scope of a behaviour
    scope           \* [pairs, traffic]: accepts and peer data modelled in this behaviour

ctorVars == <<local_port, ctorPc, ctorError, occupied, occAtProbe, envFlips, sock>>
loopVars == <<loopPc, index, nPairs>>
sockVars == <<client, ws>>
cPumpVars == <<cpc, cbuf>>
wPumpVars == <<wpc, wbuf>>
envVars == <<clientIn, clientEof, wsIn, remoteClosed>>
obsVars == <<reads, wsSent, wsRecvd, clientOut>>
probeVars == <<probePc, probeStatus, probeBody, probeRet, probeWarned>>
guardVars == <<portOpen, rivalPc, rivalSock>>
argVars == <<selfClient, selfWs, opens, cargs, wargs, cfault>>
vars == <<ctorVars, loopVars, sockVars, cPumpVars, wPumpVars, envVars, obsVars, probeVars,
          guardVars, argVars, scope>>

\* ----------------------------------------------------------------- helpers
Min(a, b) == IF a < b THEN a ELSE b

RECURSIVE Flatten(_)
Flatten(ss) == IF ss = <<>> THEN <<>> ELSE Head(ss) \o Flatten(Tail(ss))

RECURSIVE SumLen(_, _)
SumLen(f, S) ==
    IF S = {} THEN 0
    ELSE LET k == CHOOSE x \in S : TRUE IN Len(f[k]) + SumLen(f, S \ {k})

\* sequences over S of length 0..n
SeqsUpTo(S, n) == UNION {[1..m -> S] : m \in 0..n}

\* ------------------------------------------------------ TunnelServer.__init__
\* sock.connect_ex(('', self.local_port)): 0 when something accepts the connect,
\* an errno (ECONNREFUSED, 111) otherwise
connect_ex(inUse) == IF inUse THEN 0 ELSE 111

\* faulty variant: the result the wrong way round
is_port_open_Inverted(inUse) ==
    IF connect_ex(inUse) = 0 THEN TRUE ELSE FALSE

\* faulty variant: the result of the connect is not looked at
is_port_open_Unchecked(inUse) == TRUE

\* is_port_open(): False when the connect succeeds, True when it fails
is_port_open(inUse) ==
    IF connect_ex(inUse) = 0 THEN FALSE ELSE TRUE

\* self.sock.bind with SO_REUSEADDR while another socket holds the port:
\*   - one that listens: EADDRINUSE on Linux, success on Windows;
\*   - one that is bound, with SO_REUSEADDR, and does not listen: success on
\*     Linux and Windows, EADDRINUSE on BSD.
\* On a free port bind succeeds.
BindOutcomes(inUse) == IF inUse THEN {TRUE, FALSE} ELSE {TRUE}

\* lines 42-43
Construct_Probe ==
    /\ ctorPc = "probe"
    /\ occAtProbe' = (local_port \in occupied)
    /\ portOpen' = is_port_open(local_port \in occupied)
    /\ IF ~portOpen'
       THEN /\ ctorPc' = "raised"
            /\ ctorError' = "PortUnavailable"
       ELSE /\ ctorPc' = "bind"
            /\ ctorError' = ctorError
    /\ UNCHANGED <<local_port, occupied, envFlips, sock>>
    /\ UNCHANGED <<loopVars, sockVars, cPumpVars, wPumpVars, envVars, obsVars, probeVars, rivalPc, rivalSock, argVars, scope>>

\* lines 44-53
Construct_Bind ==
    /\ ctorPc = "bind"
    /\ \E ok \in BindOutcomes(local_port \in occupied \/ rivalSock = "bound") :
          IF ok
          THEN /\ sock' = "bound"
               /\ ctorPc' = "done"
               /\ ctorError' = ctorError
          ELSE /\ sock' = "created"
               /\ ctorPc' = "raised"
               /\ ctorError' = "OSError"
    /\ UNCHANGED <<local_port, occupied, occAtProbe, envFlips>>
    /\ UNCHANGED <<loopVars, sockVars, cPumpVars, wPumpVars, envVars, obsVars, probeVars, guardVars, argVars, scope>>

\* lines 42-43 in the second TunnelServer: the connect of its probe is accepted
\* only by a socket that listens
Rival_Probe ==
    /\ rivalPc = "probe"
    /\ rivalPc' = IF ~is_port_open(local_port \in occupied \/ sock = "listening")
                  THEN "raised" ELSE "bind"
    /\ UNCHANGED <<portOpen, rivalSock>>
    /\ UNCHANGED <<ctorVars, loopVars, sockVars, cPumpVars, wPumpVars, envVars, obsVars, probeVars, argVars, scope>>

\* lines 44-53 in the second TunnelServer
Rival_Bind ==
    /\ rivalPc = "bind"
    /\ \E ok \in BindOutcomes(local_port \in occupied \/ sock \in {"bound", "listening"}) :
          IF ok
          THEN /\ rivalSock' = "bound"
               /\ rivalPc' = "done"
          ELSE /\ rivalSock' = "created"
               /\ rivalPc' = "raised"
    /\ UNCHANGED portOpen
    /\ UNCHANGED <<ctorVars, loopVars, sockVars, cPumpVars, wPumpVars, envVars, obsVars, probeVars, argVars, scope>>

\* another process starts or stops listening on port p during construction
EnvPort(p) ==
    /\ ctorPc \in {"probe", "bind"}
    /\ envFlips < MaxEnvFlips
    /\ envFlips' = envFlips + 1
    /\ occupied' = IF p \in occupied THEN occupied \ {p} ELSE occupied \cup {p}
    /\ UNCHANGED <<local_port, ctorPc, ctorError, occAtProbe, sock>>
    /\ UNCHANGED <<loopVars, sockVars, cPumpVars, wPumpVars, envVars, obsVars, probeVars, guardVars, argVars, scope>>

\* ------------------------------------------------------- TunnelServer.listen
\* a thread that returned, or died of an unhandled exception
Terminated == {"returned", "raised"}

\* lines 100-103: start_server() -> listen()
Listen_Begin ==
    /\ ctorPc = "done"
    /\ loopPc = "idle"
    /\ sock' = "listening"
    /\ index' = 0
    /\ loopPc' = "accept"
    /\ UNCHANGED <<local_port, ctorPc, ctorError, occupied, occAtProbe, envFlips, nPairs>>
    /\ UNCHANGED <<sockVars, cPumpVars, wPumpVars, envVars, obsVars, probeVars, guardVars, argVars, scope>>

\* lines 105-106: self.client, address = self.sock.accept(); settimeout(60)
Accept ==
    /\ loopPc = "accept"
    /\ nPairs < scope.pairs
    /\ nPairs' = nPairs + 1
    /\ client' = [client EXCEPT ![nPairs + 1] = [st |-> "open", closes |-> 0]]
    /\ loopPc' = "connect"
    /\ selfClient' = nPairs + 1
    /\ UNCHANGED <<index, ws, selfWs, opens, cargs, wargs, cfault>>
    /\ UNCHANGED <<ctorVars, cPumpVars, wPumpVars, envVars, obsVars, probeVars, guardVars, scope>>

\* faulty variant: a failed create_connection is tried again
Connect_Retry ==
    /\ loopPc = "connect"
    /\ opens' = [opens EXCEPT ![nPairs] = @ + 1]
    /\ \E ok \in BOOLEAN :
          IF ok
          THEN /\ ws' = [ws EXCEPT ![nPairs] = [st |-> "open", closes |-> 0]]
               /\ selfWs' = nPairs
               /\ loopPc' = "spawn"
          ELSE /\ ws' = ws
               /\ selfWs' = selfWs
               /\ loopPc' = "connect"
    /\ UNCHANGED <<index, nPairs, client, selfClient, cargs, wargs, cfault>>
    /\ UNCHANGED <<ctorVars, cPumpVars, wPumpVars, envVars, obsVars, probeVars, guardVars, scope>>

\* faulty variant: the websocket of the previous client is used again
Connect_Reuse ==
    /\ loopPc = "connect"
    /\ opens' = [opens EXCEPT ![nPairs] = @ + 1]
    /\ \E ok \in BOOLEAN :
          IF selfWs # 0
          THEN /\ ws' = ws
               /\ selfWs' = selfWs
               /\ loopPc' = "spawn"
          ELSE IF ok
          THEN /\ ws' = [ws EXCEPT ![nPairs] = [st |-> "open", closes |-> 0]]
               /\ selfWs' = nPairs
               /\ loopPc' = "spawn"
          ELSE /\ ws' = ws
               /\ selfWs' = selfWs
               /\ loopPc' = "raised"
    /\ UNCHANGED <<index, nPairs, client, selfClient, cargs, wargs, cfault>>
    /\ UNCHANGED <<ctorVars, cPumpVars, wPumpVars, envVars, obsVars, probeVars, guardVars, scope>>

\* lines 107-123: self.ws = create_connection(...); it returns the websocket or raises
Connect ==
    /\ loopPc = "connect"
    /\ opens' = [opens EXCEPT ![nPairs] = @ + 1]
    /\ \E ok \in BOOLEAN :
          IF ok
          THEN /\ ws' = [ws EXCEPT ![nPairs] = [st |-> "open", closes |-> 0]]
               /\ selfWs' = nPairs
               /\ loopPc' = "spawn"
          ELSE /\ ws' = ws
               /\ selfWs' = selfWs
               /\ loopPc' = "raised"
    /\ UNCHANGED <<index, nPairs, client, selfClient, cargs, wargs, cfault>>
    /\ UNCHANGED <<ctorVars, cPumpVars, wPumpVars, envVars, obsVars, probeVars, guardVars, scope>>

\* lines 127-128: args=(self.client, self.ws, index)
ThreadArgs(c, w, i) == [client |-> c, ws |-> w, index |-> i]

\* faulty variant: the threads are built before index is incremented
Spawn_IndexAfter ==
    /\ loopPc = "spawn"
    /\ index' = index + 1
    /\ cargs' = [cargs EXCEPT ![nPairs] = ThreadArgs(selfClient, selfWs, index)]
    /\ wargs' = [wargs EXCEPT ![nPairs] = ThreadArgs(selfClient, selfWs, index)]
    /\ cpc' = [cpc EXCEPT ![nPairs] = "recv"]
    /\ loopPc' = "start_ws"
    /\ UNCHANGED <<nPairs, cbuf, selfClient, selfWs, opens, cfault>>
    /\ UNCHANGED <<ctorVars, sockVars, wPumpVars, envVars, obsVars, probeVars, guardVars, scope>>

\* lines 125-129: index = index + 1; both Thread objects built; debugger_thread.start()
Spawn ==
    /\ loopPc = "spawn"
    /\ index' = index + 1
    /\ cargs' = [cargs EXCEPT ![nPairs] = ThreadArgs(selfClient, selfWs, index')]
    /\ wargs' = [wargs EXCEPT ![nPairs] = ThreadArgs(selfClient, selfWs, index')]
    /\ cpc' = [cpc EXCEPT ![nPairs] = "recv"]
    /\ loopPc' = "start_ws"
    /\ UNCHANGED <<nPairs, cbuf, selfClient, selfWs, opens, cfault>>
    /\ UNCHANGED <<ctorVars, sockVars, wPumpVars, envVars, obsVars, probeVars, guardVars, scope>>

\* line 130: web_socket_thread.start()
StartWs ==
    /\ loopPc = "start_ws"
    /\ wpc' = [wpc EXCEPT ![nPairs] = "recv"]
    /\ loopPc' = "join_debugger"
    /\ UNCHANGED <<index, nPairs, wbuf>>
    /\ UNCHANGED <<ctorVars, sockVars, cPumpVars, envVars, obsVars, probeVars, guardVars, argVars, scope>>

\* line 133: debugger_thread.join()
JoinDebugger ==
    /\ loopPc = "join_debugger"
    /\ cpc[nPairs] \in Terminated
    /\ loopPc' = "join_ws"
    /\ UNCHANGED <<index, nPairs>>
    /\ UNCHANGED <<ctorVars, sockVars, cPumpVars, wPumpVars, envVars, obsVars, probeVars, guardVars, argVars, scope>>

\* faulty variant: the second join does not wait
JoinWs_NoWait ==
    /\ loopPc = "join_ws"
    /\ loopPc' = "accept"
    /\ UNCHANGED <<index, nPairs>>
    /\ UNCHANGED <<ctorVars, sockVars, cPumpVars, wPumpVars, envVars, obsVars, probeVars, guardVars, argVars, scope>>

\* lines 134-136: web_socket_thread.join(); back to the top of the while loop
JoinWs ==
    /\ loopPc = "join_ws"
    /\ wpc[nPairs] \in Terminated
    /\ loopPc' = "accept"
    /\ UNCHANGED <<index, nPairs>>
    /\ UNCHANGED <<ctorVars, sockVars, cPumpVars, wPumpVars, envVars, obsVars, probeVars, guardVars, argVars, scope>>

\* ------------------------------------------------------ sockets and closing
\* socket.close() / WebSocket.close(): closing again is a no-op, never an error
Close(s) == [st |-> "closed", closes |-> s.closes + 1]

\* client.close(): the socket's unread input goes with it
CloseClientSock(k) ==
    /\ client' = [client EXCEPT ![k] = Close(@)]
    /\ clientIn' = [clientIn EXCEPT ![k] = <<>>]
    /\ clientEof' = [clientEof EXCEPT ![k] = FALSE]

\* ws_socket.close(): the stream's unreceived messages go with it
CloseWsSock(k) ==
    /\ ws' = [ws EXCEPT ![k] = Close(@)]
    /\ wsIn' = [wsIn EXCEPT ![k] = <<>>]
    /\ remoteClosed' = [remoteClosed EXCEPT ![k] = FALSE]

\* ------------------------------------------ TunnelServer.listen_to_client
\* line 165: buf = bytearray(4096)
bytearray(n) == [i \in 1..n |-> 0]

\* line 166: client.recv_into(buf, 4096) copies what is available, up to nmax
\* bytes, to the front of buf and returns how many
recv_into(buf, avail, nmax) ==
    LET nb == Min(Len(avail), nmax)
    IN  [nbytes |-> nb,
         buf |-> [i \in 1..BufSize |-> IF i <= nb THEN avail[i] ELSE buf[i]]]

\* faulty variant: buf[0:nbytes-1]
ResponseData_OffByOne(buf, nbytes) == [i \in 1..(nbytes - 1) |-> buf[i]]

\* line 169: responseData = buf[0:nbytes]
ResponseData(buf, nbytes) == [i \in 1..nbytes |-> buf[i]]

\* lines 165-169: a read that returns nbytes > 0
C_RecvData(k) ==
    /\ cpc[k] = "recv"
    /\ client[cargs[k].client].st = "open"
    /\ clientIn[cargs[k].client] # <<>>
    /\ LET r == recv_into(bytearray(BufSize), clientIn[cargs[k].client], BufSize)
       IN  /\ r.nbytes > 0
           /\ cbuf' = [cbuf EXCEPT ![k] = ResponseData(r.buf, r.nbytes)]
           /\ reads' = [reads EXCEPT ![cargs[k].client] = Append(@, SubSeq(clientIn[cargs[k].client], 1, r.nbytes))]
           /\ clientIn' = [clientIn EXCEPT ![cargs[k].client] = SubSeq(@, r.nbytes + 1, Len(@))]
    /\ cpc' = [cpc EXCEPT ![k] = "send"]
    /\ UNCHANGED <<clientEof, wsIn, remoteClosed, wsSent, wsRecvd, clientOut>>
    /\ UNCHANGED <<ctorVars, loopVars, sockVars, wPumpVars, probeVars, guardVars, argVars, scope>>

\* lines 166-168, 173-174: the debugger closed its end, the read returns 0
C_RecvEof(k) ==
    /\ cpc[k] = "recv"
    /\ client[cargs[k].client].st = "open"
    /\ clientIn[cargs[k].client] = <<>>
    /\ clientEof[cargs[k].client]
    /\ cpc' = [cpc EXCEPT ![k] = "eof_close_client"]
    /\ UNCHANGED cbuf
    /\ UNCHANGED <<ctorVars, loopVars, sockVars, wPumpVars, envVars, obsVars, probeVars, guardVars, argVars, scope>>

\* faulty variant: no except clause, the error ends the thread
C_RecvError_Uncaught(k) ==
    /\ cpc[k] = "recv"
    /\ client[cargs[k].client].st = "closed" \/ clientIn[cargs[k].client] = <<>>
    /\ cpc' = [cpc EXCEPT ![k] = "raised"]
    /\ UNCHANGED cbuf
    /\ UNCHANGED <<ctorVars, loopVars, sockVars, wPumpVars, envVars, obsVars, probeVars, guardVars, argVars, scope>>

\* faulty variant: the timeout ends the thread, nothing is closed
C_RecvTimeout_Return(k) ==
    /\ cpc[k] = "recv"
    /\ client[cargs[k].client].st = "open"
    /\ clientIn[cargs[k].client] = <<>>
    /\ ~clientEof[cargs[k].client]
    /\ cpc' = [cpc EXCEPT ![k] = "returned"]
    /\ cfault' = [cfault EXCEPT ![k] = "timeout"]
    /\ UNCHANGED <<selfClient, selfWs, opens, cargs, wargs>>
    /\ UNCHANGED cbuf
    /\ UNCHANGED <<ctorVars, loopVars, sockVars, wPumpVars, envVars, obsVars, probeVars, guardVars, scope>>

\* lines 106, 166, 178-179: nothing arrives on the open local socket for 60 s:
\* recv_into raises socket.timeout, the bare except catches it
C_RecvTimeout(k) ==
    /\ cpc[k] = "recv"
    /\ client[cargs[k].client].st = "open"
    /\ clientIn[cargs[k].client] = <<>>
    /\ ~clientEof[cargs[k].client]
    /\ cpc' = [cpc EXCEPT ![k] = "exc_close_client"]
    /\ cfault' = [cfault EXCEPT ![k] = "timeout"]
    /\ UNCHANGED <<selfClient, selfWs, opens, cargs, wargs>>
    /\ UNCHANGED cbuf
    /\ UNCHANGED <<ctorVars, loopVars, sockVars, wPumpVars, envVars, obsVars, probeVars, guardVars, scope>>

\* lines 166, 178-179: recv_into raises another error: a reset, or the socket
\* was closed by the sibling thread
C_RecvError(k) ==
    /\ cpc[k] = "recv"
    /\ client[cargs[k].client].st = "closed" \/ clientIn[cargs[k].client] = <<>>
    /\ cpc' = [cpc EXCEPT ![k] = "exc_close_client"]
    /\ cfault' = [cfault EXCEPT ![k] = "error"]
    /\ UNCHANGED <<selfClient, selfWs, opens, cargs, wargs>>
    /\ UNCHANGED cbuf
    /\ UNCHANGED <<ctorVars, loopVars, sockVars, wPumpVars, envVars, obsVars, probeVars, guardVars, scope>>

\* faulty variant: send_binary waits for the lock that the sibling thread holds
\* while it is inside ws_socket.recv()
C_Send_SharedLock(k) ==
    /\ cpc[k] = "send"
    /\ wpc[k] # "recv"
    /\ ws[cargs[k].ws].st = "open"
    /\ wsSent' = [wsSent EXCEPT ![cargs[k].ws] = Append(@, cbuf[k])]
    /\ cpc' = [cpc EXCEPT ![k] = "recv"]
    /\ UNCHANGED <<cbuf, reads, wsRecvd, clientOut>>
    /\ UNCHANGED <<ctorVars, loopVars, sockVars, wPumpVars, envVars, probeVars, guardVars, argVars, scope>>

\* lines 117-122, 170-172: ws_socket.send_binary(responseData) sends one message;
\* the stream is opened with enable_multithread=True, sending and receiving take
\* different locks
C_Send(k) ==
    /\ cpc[k] = "send"
    /\ ws[cargs[k].ws].st = "open"
    /\ wsSent' = [wsSent EXCEPT ![cargs[k].ws] = Append(@, cbuf[k])]
    /\ cpc' = [cpc EXCEPT ![k] = "recv"]
    /\ UNCHANGED <<cbuf, reads, wsRecvd, clientOut>>
    /\ UNCHANGED <<ctorVars, loopVars, sockVars, wPumpVars, envVars, probeVars, guardVars, argVars, scope>>

\* lines 171, 178-179: send_binary raises: the stream is closed
C_SendError(k) ==
    /\ cpc[k] = "send"
    /\ ws[cargs[k].ws].st = "closed" \/ remoteClosed[cargs[k].ws]
    /\ cpc' = [cpc EXCEPT ![k] = "exc_close_client"]
    /\ cfault' = [cfault EXCEPT ![k] = "error"]
    /\ UNCHANGED <<selfClient, selfWs, opens, cargs, wargs>>
    /\ UNCHANGED cbuf
    /\ UNCHANGED <<ctorVars, loopVars, sockVars, wPumpVars, envVars, obsVars, probeVars, guardVars, scope>>

\* lines 175 and 180: client.close()
C_CloseClient(k) ==
    /\ cpc[k] \in {"eof_close_client", "exc_close_client"}
    /\ CloseClientSock(cargs[k].client)
    /\ cpc' = [cpc EXCEPT ![k] = IF @ = "eof_close_client" THEN "eof_close_ws" ELSE "exc_close_ws"]
    /\ UNCHANGED <<ws, wsIn, remoteClosed, cbuf>>
    /\ UNCHANGED <<ctorVars, loopVars, wPumpVars, obsVars, probeVars, guardVars, argVars, scope>>

\* faulty variant: the pump forgets ws_socket.close()
C_CloseWs_Skip(k) ==
    /\ cpc[k] \in {"eof_close_ws", "exc_close_ws"}
    /\ cpc' = [cpc EXCEPT ![k] = "returned"]
    /\ cbuf' = [cbuf EXCEPT ![k] = <<>>]
    /\ cfault' = [cfault EXCEPT ![k] = "none"]
    /\ UNCHANGED <<selfClient, selfWs, opens, cargs, wargs>>
    /\ UNCHANGED <<ws, wsIn, remoteClosed, client, clientIn, clientEof>>
    /\ UNCHANGED <<ctorVars, loopVars, wPumpVars, obsVars, probeVars, guardVars, scope>>

\* lines 176-177 and 181-182: ws_socket.close(); break / return False: the
\* thread ends and its locals are gone
C_CloseWs(k) ==
    /\ cpc[k] \in {"eof_close_ws", "exc_close_ws"}
    /\ CloseWsSock(cargs[k].ws)
    /\ cpc' = [cpc EXCEPT ![k] = "returned"]
    /\ cbuf' = [cbuf EXCEPT ![k] = <<>>]
    /\ cfault' = [cfault EXCEPT ![k] = "none"]
    /\ UNCHANGED <<selfClient, selfWs, opens, cargs, wargs>>
    /\ UNCHANGED <<client, clientIn, clientEof>>
    /\ UNCHANGED <<ctorVars, loopVars, wPumpVars, obsVars, probeVars, guardVars, scope>>

ClientPump(k) ==
    \/ C_RecvData(k)
    \/ C_RecvEof(k)
    \/ C_RecvTimeout(k)
    \/ C_RecvError(k)
    \/ C_Send(k)
    \/ C_SendError(k)
    \/ C_CloseClient(k)
    \/ C_CloseWs(k)

\* -------------------------------------- TunnelServer.listen_to_web_socket
\* lines 142-147: ws_socket.recv() returns a message; "if data" is its truthiness
W_RecvMsg(k) ==
    /\ wpc[k] = "recv"
    /\ ws[wargs[k].ws].st = "open"
    /\ wsIn[wargs[k].ws] # <<>>
    /\ LET data == Head(wsIn[wargs[k].ws])
       IN  IF data # <<>>
           THEN /\ wbuf' = [wbuf EXCEPT ![k] = data]
                /\ wsRecvd' = [wsRecvd EXCEPT ![wargs[k].ws] = Append(@, data)]
                /\ wpc' = [wpc EXCEPT ![k] = "sendall"]
           ELSE /\ wpc' = [wpc EXCEPT ![k] = "eof_close_client"]
                /\ UNCHANGED <<wbuf, wsRecvd>>
    /\ wsIn' = [wsIn EXCEPT ![wargs[k].ws] = Tail(@)]
    /\ UNCHANGED <<clientIn, clientEof, remoteClosed, reads, wsSent, clientOut>>
    /\ UNCHANGED <<ctorVars, loopVars, sockVars, cPumpVars, probeVars, guardVars, argVars, scope>>

\* lines 142-144, 150-151: recv() on a stream closed by the remote or by the
\* sibling thread returns an empty value
W_RecvClosed(k) ==
    /\ wpc[k] = "recv"
    /\ \/ ws[wargs[k].ws].st = "closed"
       \/ remoteClosed[wargs[k].ws] /\ wsIn[wargs[k].ws] = <<>>
    /\ wpc' = [wpc EXCEPT ![k] = "eof_close_client"]
    /\ UNCHANGED wbuf
    /\ UNCHANGED <<ctorVars, loopVars, sockVars, cPumpVars, envVars, obsVars, probeVars, guardVars, argVars, scope>>

\* lines 142, 155-156: ... or raises
W_RecvError(k) ==
    /\ wpc[k] = "recv"
    /\ \/ ws[wargs[k].ws].st = "closed"
       \/ remoteClosed[wargs[k].ws] /\ wsIn[wargs[k].ws] = <<>>
    /\ wpc' = [wpc EXCEPT ![k] = "exc_close_client"]
    /\ UNCHANGED wbuf
    /\ UNCHANGED <<ctorVars, loopVars, sockVars, cPumpVars, envVars, obsVars, probeVars, guardVars, argVars, scope>>

\* faulty variant: client.send(response), which may write only the first bytes
W_SendAll_Partial(k) ==
    /\ wpc[k] = "sendall"
    /\ client[wargs[k].client].st = "open"
    /\ clientOut' = [clientOut EXCEPT ![wargs[k].client] = @ \o SubSeq(wbuf[k], 1, 1)]
    /\ wpc' = [wpc EXCEPT ![k] = "recv"]
    /\ UNCHANGED <<wbuf, reads, wsSent, wsRecvd>>
    /\ UNCHANGED <<ctorVars, loopVars, sockVars, cPumpVars, envVars, probeVars, guardVars, argVars, scope>>

\* lines 146-149: client.sendall(response) writes every byte of the message
W_SendAll(k) ==
    /\ wpc[k] = "sendall"
    /\ client[wargs[k].client].st = "open"
    /\ clientOut' = [clientOut EXCEPT ![wargs[k].client] = @ \o wbuf[k]]
    /\ wpc' = [wpc EXCEPT ![k] = "recv"]
    /\ UNCHANGED <<wbuf, reads, wsSent, wsRecvd>>
    /\ UNCHANGED <<ctorVars, loopVars, sockVars, cPumpVars, envVars, probeVars, guardVars, argVars, scope>>

\* lines 148, 155-156: sendall raises: the socket was closed by the sibling
\* thread (nothing written), or the debugger is gone (an unknown part written)
W_SendAllError(k) ==
    /\ wpc[k] = "sendall"
    /\ client[wargs[k].client].st = "closed" \/ clientEof[wargs[k].client]
    /\ \E n \in 0..(Len(wbuf[k]) - 1) :
          /\ client[wargs[k].client].st = "closed" => n = 0
          /\ clientOut' = [clientOut EXCEPT ![wargs[k].client] = @ \o SubSeq(wbuf[k], 1, n)]
    /\ wpc' = [wpc EXCEPT ![k] = "exc_close_client"]
    /\ UNCHANGED <<wbuf, reads, wsSent, wsRecvd>>
    /\ UNCHANGED <<ctorVars, loopVars, sockVars, cPumpVars, envVars, probeVars, guardVars, argVars, scope>>

\* faulty variant: client.shutdown(), which raises on a socket already closed
W_CloseClient_Shutdown(k) ==
    /\ wpc[k] \in {"eof_close_client", "exc_close_client"}
    /\ IF client[wargs[k].client].st = "closed"
       THEN /\ wpc' = [wpc EXCEPT ![k] = "raised"]
            /\ UNCHANGED <<client, clientIn, clientEof>>
       ELSE /\ CloseClientSock(wargs[k].client)
            /\ wpc' = [wpc EXCEPT ![k] = IF @ = "eof_close_client" THEN "eof_close_ws" ELSE "exc_close_ws"]
    /\ UNCHANGED <<ws, wsIn, remoteClosed, wbuf>>
    /\ UNCHANGED <<ctorVars, loopVars, cPumpVars, obsVars, probeVars, guardVars, argVars, scope>>

\* faulty variant: the pump forgets client.close()
W_CloseClient_Skip(k) ==
    /\ wpc[k] \in {"eof_close_client", "exc_close_client"}
    /\ wpc' = [wpc EXCEPT ![k] = IF @ = "eof_close_client" THEN "eof_close_ws" ELSE "exc_close_ws"]
    /\ UNCHANGED <<client, clientIn, clientEof, ws, wsIn, remoteClosed, wbuf>>
    /\ UNCHANGED <<ctorVars, loopVars, cPumpVars, obsVars, probeVars, guardVars, argVars, scope>>

\* lines 152 and 157: client.close()
W_CloseClient(k) ==
    /\ wpc[k] \in {"eof_close_client", "exc_close_client"}
    /\ CloseClientSock(wargs[k].client)
    /\ wpc' = [wpc EXCEPT ![k] = IF @ = "eof_close_client" THEN "eof_close_ws" ELSE "exc_close_ws"]
    /\ UNCHANGED <<ws, wsIn, remoteClosed, wbuf>>
    /\ UNCHANGED <<ctorVars, loopVars, cPumpVars, obsVars, probeVars, guardVars, argVars, scope>>

\* faulty variant: the pump forgets ws_socket.close()
W_CloseWs_Skip(k) ==
    /\ wpc[k] \in {"eof_close_ws", "exc_close_ws"}
    /\ wpc' = [wpc EXCEPT ![k] = "returned"]
    /\ wbuf' = [wbuf EXCEPT ![k] = <<>>]
    /\ UNCHANGED <<ws, wsIn, remoteClosed, client, clientIn, clientEof>>
    /\ UNCHANGED <<ctorVars, loopVars, cPumpVars, obsVars, probeVars, guardVars, argVars, scope>>

\* lines 153-154 and 158-159: ws_socket.close(); break / return False: the
\* thread ends and its locals are gone
W_CloseWs(k) ==
    /\ wpc[k] \in {"eof_close_ws", "exc_close_ws"}
    /\ CloseWsSock(wargs[k].ws)
    /\ wpc' = [wpc EXCEPT ![k] = "returned"]
    /\ wbuf' = [wbuf EXCEPT ![k] = <<>>]
    /\ UNCHANGED <<client, clientIn, clientEof>>
    /\ UNCHANGED <<ctorVars, loopVars, cPumpVars, obsVars, probeVars, guardVars, argVars, scope>>

WsPump(k) ==
    \/ W_RecvMsg(k)
    \/ W_RecvClosed(k)
    \/ W_RecvError(k)
    \/ W_SendAll(k)
    \/ W_SendAllError(k)
    \/ W_CloseClient(k)
    \/ W_CloseWs(k)

\* ------------------------------------- environment: debugger, remote service
LocalBytes == SumLen(clientIn, Pairs) + SumLen([k \in Pairs |-> Flatten(reads[k])], Pairs)
RemoteMsgs == SumLen(wsIn, Pairs) + SumLen(wsRecvd, Pairs)

\* the debugger writes one more byte to its connection
DebuggerWrite(k, b) ==
    /\ client[k].st = "open"
    /\ ~clientEof[k]
    /\ LocalBytes + RemoteMsgs < scope.traffic
    /\ clientIn' = [clientIn EXCEPT ![k] = Append(@, b)]
    /\ UNCHANGED <<clientEof, wsIn, remoteClosed>>
    /\ UNCHANGED <<ctorVars, loopVars, sockVars, cPumpVars, wPumpVars, obsVars, probeVars, guardVars, argVars, scope>>

\* the debugger closes its connection
DebuggerClose(k) ==
    /\ client[k].st = "open"
    /\ ~clientEof[k]
    /\ clientEof' = [clientEof EXCEPT ![k] = TRUE]
    /\ UNCHANGED <<clientIn, wsIn, remoteClosed>>
    /\ UNCHANGED <<ctorVars, loopVars, sockVars, cPumpVars, wPumpVars, obsVars, probeVars, guardVars, argVars, scope>>

\* the remote service sends one message
RemoteSend(k, m) ==
    /\ ws[k].st = "open"
    /\ ~remoteClosed[k]
    /\ LocalBytes + RemoteMsgs < scope.traffic
    /\ wsIn' = [wsIn EXCEPT ![k] = Append(@, m)]
    /\ UNCHANGED <<clientIn, clientEof, remoteClosed>>
    /\ UNCHANGED <<ctorVars, loopVars, sockVars, cPumpVars, wPumpVars, obsVars, probeVars, guardVars, argVars, scope>>

\* the remote service closes the stream
RemoteClose(k) ==
    /\ ws[k].st = "open"
    /\ ~remoteClosed[k]
    /\ remoteClosed' = [remoteClosed EXCEPT ![k] = TRUE]
    /\ UNCHANGED <<clientIn, clientEof, wsIn>>
    /\ UNCHANGED <<ctorVars, loopVars, sockVars, cPumpVars, wPumpVars, obsVars, probeVars, guardVars, argVars, scope>>

Env(k) ==
    \/ \E b \in Byte : DebuggerWrite(k, b)
    \/ DebuggerClose(k)
    \/ \E m \in Messages : RemoteSend(k, m)
    \/ RemoteClose(k)

\* --------------------------------- TunnelServer.is_port_set_to_default
\* str.upper() on the characters the response bodies are made of
UpperChar(c) ==
    CASE c = "f" -> "F"
      [] c = "a" -> "A"
      [] c = "i" -> "I"
      [] c = "l" -> "L"
      [] OTHER -> c

upper(msg) == [i \in 1..Len(msg) |-> UpperChar(msg[i])]

\* Python's "sub in s" on strings
In(sub, str) ==
    \E i \in 0..(Len(str) - Len(sub)) : \A j \in 1..Len(sub) : str[i + j] = sub[j]

\* faulty variant: the failure marker decides the result
is_port_set_to_default_FailMeansFalse(status, msg) ==
    IF status # HTTP_OK
    THEN [raised |-> TRUE, ret |-> "none", warned |-> FALSE]
    ELSE IF In(<<"F", "A", "I", "L">>, upper(msg))
         THEN [raised |-> FALSE, ret |-> FALSE, warned |-> TRUE]
         ELSE [raised |-> FALSE, ret |-> In(<<"2", "2", "2", "2">>, msg), warned |-> FALSE]

\* lines 90-98: what the call does with the response's status and body
is_port_set_to_default(status, msg) ==
    IF status # HTTP_OK
    THEN [raised |-> TRUE, ret |-> "none", warned |-> FALSE]
    ELSE [raised |-> FALSE,
          warned |-> In(<<"F", "A", "I", "L">>, upper(msg)),
          ret |-> IF In(<<"2", "2", "2", "2">>, msg) THEN TRUE ELSE FALSE]

\* lines 71-98: one call; the response is the environment's
Probe ==
    /\ probePc = "idle"
    /\ LET r == is_port_set_to_default(probeStatus, probeBody)
       IN  /\ probePc' = IF r.raised THEN "raised" ELSE "returned"
           /\ probeRet' = r.ret
           /\ probeWarned' = r.warned
    /\ UNCHANGED <<probeStatus, probeBody>>
    /\ UNCHANGED <<ctorVars, loopVars, sockVars, cPumpVars, wPumpVars, envVars, obsVars, guardVars, argVars, scope>>

\* ------------------------------------------------------------ specification
InitProbeIdle ==
    /\ probePc = "idle"
    /\ probeStatus = HTTP_OK
    /\ probeBody = <<>>
    /\ probeRet = "none"
    /\ probeWarned = FALSE

InitPairs ==
    /\ index = 0
    /\ nPairs = 0
    /\ client = [k \in Pairs |-> [st |-> "none", closes |-> 0]]
    /\ ws = [k \in Pairs |-> [st |-> "none", closes |-> 0]]
    /\ cpc = [k \in Pairs |-> "unstarted"]
    /\ wpc = [k \in Pairs |-> "unstarted"]
    /\ cbuf = [k \in Pairs |-> <<>>]
    /\ wbuf = [k \in Pairs |-> <<>>]
    /\ clientIn = [k \in Pairs |-> <<>>]
    /\ clientEof = [k \in Pairs |-> FALSE]
    /\ wsIn = [k \in Pairs |-> <<>>]
    /\ remoteClosed = [k \in Pairs |-> FALSE]
    /\ reads = [k \in Pairs |-> <<>>]
    /\ wsSent = [k \in Pairs |-> <<>>]
    /\ wsRecvd = [k \in Pairs |-> <<>>]
    /\ clientOut = [k \in Pairs |-> <<>>]
    /\ selfClient = 0
    /\ selfWs = 0
    /\ opens = [k \in Pairs |-> 0]
    /\ cargs = [k \in Pairs |-> ThreadArgs(0, 0, 0)]
    /\ wargs = [k \in Pairs |-> ThreadArgs(0, 0, 0)]
    /\ cfault = [k \in Pairs |-> "none"]

\* a TunnelServer constructed on a free port, before start_server()
InitConstructed ==
    /\ local_port \in Ports
    /\ ctorPc = "done"
    /\ ctorError = "none"
    /\ occupied = {}
    /\ occAtProbe = FALSE
    /\ envFlips = 0
    /\ sock = "bound"
    /\ portOpen = TRUE
    /\ rivalPc = "none"
    /\ rivalSock = "none"
    /\ loopPc = "idle"

Init ==
    /\ InitConstructed
    /\ local_port = 8000
    /\ InitPairs
    /\ InitProbeIdle
    /\ scope = [pairs |-> MaxPairs, traffic |-> MaxTraffic]

Listen == Listen_Begin \/ Accept \/ Connect \/ Spawn \/ StartWs \/ JoinDebugger \/ JoinWs

Next ==
    \/ Listen
    \/ \E k \in Pairs : ClientPump(k)
    \/ \E k \in Pairs : WsPump(k)
    \/ \E k \in Pairs : Env(k)

Spec == Init /\ [][Next]_vars

\* ---- construction on any port, with other processes coming and going
InitCtor ==
    /\ local_port \in Ports
    /\ occupied \in SUBSET Ports
    /\ ctorPc = "probe"
    /\ ctorError = "none"
    /\ occAtProbe = "unknown"
    /\ envFlips = 0
    /\ sock = "none"
    /\ portOpen = "none"
    /\ rivalPc = "none"
    /\ rivalSock = "none"
    /\ loopPc = "idle"
    /\ InitPairs
    /\ InitProbeIdle
    /\ scope = [pairs |-> MaxPairs, traffic |-> MaxTraffic]

NextCtor ==
    \/ Construct_Probe
    \/ Construct_Bind
    \/ \E p \in Ports : EnvPort(p)

SpecCtor == InitCtor /\ [][NextCtor]_vars

\* ---- two TunnelServer objects constructed on the same port, in any order and
\* interleaving; the first may go on to start_server()
InitTwo ==
    /\ local_port \in Ports
    /\ occupied \in SUBSET Ports
    /\ ctorPc = "probe"
    /\ ctorError = "none"
    /\ occAtProbe = "unknown"
    /\ envFlips = 0
    /\ sock = "none"
    /\ portOpen = "none"
    /\ rivalPc = "probe"
    /\ rivalSock = "none"
    /\ loopPc = "idle"
    /\ InitPairs
    /\ InitProbeIdle
    /\ scope = [pairs |-> MaxPairs, traffic |-> MaxTraffic]

NextTwo ==
    \/ Construct_Probe
    \/ Construct_Bind
    \/ Listen_Begin
    \/ Rival_Probe
    \/ Rival_Bind
    \/ \E p \in Ports : EnvPort(p)

SpecTwo == InitTwo /\ [][NextTwo]_vars

\* ---- scheduling: a started thread keeps running, the 60 s timeout of the local
\* socket fires, and what the peers sent or closed is delivered
Fairness ==
    /\ WF_vars(Spawn \/ StartWs \/ JoinDebugger \/ JoinWs)
    /\ \A k \in Pairs : WF_vars(ClientPump(k))
    /\ \A k \in Pairs : WF_vars(WsPump(k))

FairInit ==
    /\ InitConstructed
    /\ local_port = 8000
    /\ InitPairs
    /\ InitProbeIdle
    /\ scope = [pairs |-> MaxFairPairs, traffic |-> MaxFairTraffic]

FairSpec == FairInit /\ [][Next]_vars /\ Fairness

\* ---- the same behaviours without the scheduling assumptions
SpecOnePair == FairInit /\ [][Next]_vars

\* ---- the status probe of a constructed TunnelServer, over responses
Bodies == {Flatten(ts) : ts \in SeqsUpTo(Tokens, MaxTokens)}

InitProbe ==
    /\ InitConstructed
    /\ local_port = 8000
    /\ InitPairs
    /\ probePc = "idle"
    /\ probeStatus \in HttpStatuses
    /\ probeBody \in Bodies
    /\ probeRet = "none"
    /\ probeWarned = FALSE
    /\ scope = [pairs |-> MaxPairs, traffic |-> MaxTraffic]

NextProbe == Probe

SpecProbe == InitProbe /\ [][NextProbe]_vars

\* ------------------------------------------------------------------ claims
PumpRunning(pc) == pc \notin ({"unstarted"} \cup Terminated)
PairActive(k) == PumpRunning(cpc[k]) \/ PumpRunning(wpc[k])
BothClosed(k) == client[k].st = "closed" /\ ws[k].st = "closed"
TerminalPath == {"eof_close_client", "exc_close_client", "eof_close_ws", "exc_close_ws"}
\* the loop is back at accept after the two joins of pair k, with nothing of k left
PairGone(k) ==
    /\ loopPc = "accept"
    /\ nPairs = k
    /\ cpc[k] = "returned"
    /\ wpc[k] = "returned"
    /\ BothClosed(k)
IsPrefix(a, b) == Len(a) <= Len(b) /\ SubSeq(b, 1, Len(a)) = a

\* C1: at most one ConnectionPair is active at any time: pumps of two different
\* pairs never run at the same time, and while the loop is at accept, connect or
\* about to start the threads, no pump of any pair is running.
C1_AtMostOnePairActive ==
    /\ \A j, k \in Pairs : (PairActive(j) /\ PairActive(k)) => j = k
    /\ loopPc \in {"accept", "connect", "spawn"} => \A k \in Pairs : ~PairActive(k)

C1_Witness ==
    /\ nPairs = 2
    /\ cpc[1] = "returned" /\ wpc[1] = "returned"
    /\ PumpRunning(cpc[2]) /\ PumpRunning(wpc[2])

\* C2: whenever a pump has stopped, the local socket and the remote stream of its
\* pair are both closed; whenever the loop is at accept, both handles of every
\* earlier pair are closed.
C2_StoppedImpliesBothClosed ==
    /\ \A k \in Pairs : (cpc[k] \in Terminated \/ wpc[k] \in Terminated) => BothClosed(k)
    /\ loopPc = "accept" => \A k \in 1..nPairs : BothClosed(k)

C2_Witness ==
    \E k \in Pairs : wpc[k] = "returned" /\ PumpRunning(cpc[k]) /\ BothClosed(k)

\* C3: a zero-length read in the local->remote pump leads to both endpoints
\* closed, both pumps returned and both joins of listen() completed.
C3_OrderlyCloseEndsPair ==
    \A k \in Pairs : (cpc[k] = "eof_close_client") ~> PairGone(k)

C3_Witness ==
    \E k \in Pairs : cpc[k] = "eof_close_ws" /\ wpc[k] = "recv" /\ ws[k].st = "open"

\* C4: an error raised inside a pump never escapes the pump (no thread dies of an
\* unhandled exception), listen() itself is never left because of it, and it leads
\* to both endpoints closed, both pumps returned and the loop back at accept.
C4_PumpFaultContained ==
    /\ [](\A k \in Pairs : cpc[k] # "raised" /\ wpc[k] # "raised")
    /\ [](loopPc = "raised" => cpc[nPairs] = "unstarted" /\ wpc[nPairs] = "unstarted")
    /\ \A k \in Pairs :
          (cpc[k] = "exc_close_client" \/ wpc[k] = "exc_close_client") ~> PairGone(k)

C4_Witness ==
    \E k \in Pairs : wpc[k] = "exc_close_ws" /\ client[k].st = "closed" /\ ws[k].st = "open"

\* C5: listen() never terminates: the loop is always awaiting a client or relaying,
\* it neither returns nor raises.
C5_LoopNeverTerminates ==
    loopPc \in {"idle", "accept", "connect", "spawn", "start_ws", "join_debugger", "join_ws"}

C7_ChunksForwardedInOrder ==
    \A k \in Pairs :
        /\ \A i \in 1..Len(wsSent[k]) : Len(wsSent[k][i]) \in 1..BufSize
        /\ IsPrefix(wsSent[k], reads[k])
        /\ Len(reads[k]) <= Len(wsSent[k]) + 1
        /\ cpc[k] = "recv" => wsSent[k] = reads[k]
        /\ cpc[k] = "send" => reads[k] = Append(wsSent[k], cbuf[k])

C7_Witness ==
    \E k \in Pairs : cpc[k] = "recv" /\ wsSent[k] = <<<<66>>, <<65>>>>

\* C8: every non-empty message received from the remote stream is written in full
\* to the local socket before the next receive; the local socket gets the
\* messages' bytes in the order received, unmodified.
C8_MessagesDeliveredInOrder ==
    \A k \in Pairs :
        /\ IsPrefix(clientOut[k], Flatten(wsRecvd[k]))
        /\ wpc[k] = "recv" => clientOut[k] = Flatten(wsRecvd[k])
        /\ wpc[k] = "sendall" =>
              /\ wsRecvd[k] # <<>>
              /\ wbuf[k] = wsRecvd[k][Len(wsRecvd[k])]
              /\ clientOut[k] = Flatten(SubSeq(wsRecvd[k], 1, Len(wsRecvd[k]) - 1))

C8_Witness ==
    \E k \in Pairs :
        /\ wpc[k] = "recv"
        /\ wsRecvd[k] = <<<<66, 65>>, <<65>>>>
        /\ clientOut[k] = <<66, 65, 65>>

\* C9: when both pumps are on their terminal path, each closing both endpoints, no
\* thread dies of an unhandled error and both return: every endpoint ends up closed
\* twice and both joins of listen() complete.
C9_DoubleCloseHarmless ==
    /\ [](\A k \in Pairs : cpc[k] # "raised" /\ wpc[k] # "raised")
    /\ \A k \in Pairs :
          (cpc[k] \in TerminalPath /\ wpc[k] \in TerminalPath)
              ~> (PairGone(k) /\ client[k].closes = 2 /\ ws[k].closes = 2)

C9_Witness ==
    \E k \in Pairs :
        /\ cpc[k] = "returned" /\ wpc[k] = "returned"
        /\ client[k].closes = 2 /\ ws[k].closes = 2

\* C10: the status probe raises exactly when the status is not 200; on 200 it
\* returns whether the body contains "2222", whatever else the body holds; "FAIL"
\* in the body (in any case) only produces the warning.
Has2222(body) ==
    \E i \in 1..Len(body) :
        /\ i + 3 <= Len(body)
        /\ \A j \in 0..3 : body[i + j] = "2"
HasFail(body) ==
    \E i \in 1..Len(body) :
        /\ i + 3 <= Len(body)
        /\ body[i] \in {"F", "f"} /\ body[i + 1] \in {"A", "a"}
        /\ body[i + 2] \in {"I", "i"} /\ body[i + 3] \in {"L", "l"}

C10_ProbeResult ==
    probePc # "idle" =>
        /\ (probePc = "raised") <=> (probeStatus # 200)
        /\ probePc = "raised" => probeRet = "none"
        /\ probePc = "returned" =>
              /\ probeRet = Has2222(probeBody)
              /\ probeWarned = HasFail(probeBody)

C10_Witness ==
    /\ probePc = "returned"
    /\ HasFail(probeBody) /\ Has2222(probeBody)
    /\ probeRet = TRUE /\ probeWarned = TRUE

\* C11 as stated: is_port_open() returns true when its connect to the port
\* succeeds (the port is occupied) and false when the connect fails (the port is
\* free).
C11_TrueWhenConnectSucceeds ==
    ctorPc # "probe" =>
        /\ connect_ex(occAtProbe) = 0 => portOpen = TRUE
        /\ connect_ex(occAtProbe) # 0 => portOpen = FALSE

\* C11 amended: is_port_open() returns false when its connect to the port succeeds
\* (the port is occupied) and true when the connect fails (the port is free); the
\* constructor goes on to create and bind its socket exactly when it returned true.
C11_TrueWhenConnectFails ==
    ctorPc # "probe" =>
        /\ connect_ex(occAtProbe) = 0 => portOpen = FALSE
        /\ connect_ex(occAtProbe) # 0 => portOpen = TRUE
        /\ (portOpen = FALSE) <=> (ctorError = "PortUnavailable")

C11_Witness ==
    /\ ctorPc = "raised"
    /\ occAtProbe = TRUE
    /\ portOpen = FALSE

\* the remote closed the stream of pair k while both pumps were relaying, and the
\* remote->local pump is about to see it
RemoteEndedFirst(k) ==
    /\ wpc[k] = "recv"
    /\ ws[k].st = "open" /\ remoteClosed[k] /\ wsIn[k] = <<>>
    /\ cpc[k] \in {"recv", "send"}
    /\ client[k].st = "open"

\* C12: when the remote side ends first, the remote->local pump closes both
\* endpoints and stops: once it is past its client.close() the local socket is
\* closed, and when it has returned both are; the local->remote pump then ends
\* too, and the relay of the pair is over with the loop back at accept.
C12_RemoteEndEndsPair ==
    /\ [](\A k \in Pairs :
            /\ wpc[k] \in {"eof_close_ws", "exc_close_ws"} => client[k].st = "closed"
            /\ wpc[k] = "returned" => BothClosed(k))
    /\ \A k \in Pairs : RemoteEndedFirst(k) ~> PairGone(k)

\* the remote->local pump has closed the local socket after the remote ended,
\* and the sibling, still at its read, is about to get the error
C12_Witness ==
    \E k \in Pairs :
        /\ wpc[k] = "eof_close_ws"
        /\ client[k].st = "closed"
        /\ remoteClosed[k]
        /\ cpc[k] = "recv"

\* the local->remote pump of pair k waits in recv_into: nothing to read, no EOF
LocalReadBlocked(k) ==
    /\ cpc[k] = "recv"
    /\ client[k].st = "open" /\ clientIn[k] = <<>> /\ ~clientEof[k]

\* the remote->local pump of pair k waits in ws_socket.recv(): no message, no close
RemoteRecvBlocked(k) ==
    /\ wpc[k] = "recv"
    /\ ws[k].st = "open" /\ wsIn[k] = <<>> /\ ~remoteClosed[k]

\* C13: the step a pump is ready to take can be taken wherever its sibling is, in
\* particular while the sibling waits in its read, its receive or its send: a
\* message received from the remote can be written to the open local socket, a
\* pending message received, a pending chunk read and a chunk in hand sent.
C13_PumpsIndependent ==
    \A k \in Pairs :
        /\ (wpc[k] = "recv" /\ ws[k].st = "open" /\ wsIn[k] # <<>>) => ENABLED W_RecvMsg(k)
        /\ (wpc[k] = "sendall" /\ client[k].st = "open") => ENABLED W_SendAll(k)
        /\ (cpc[k] = "recv" /\ client[k].st = "open" /\ clientIn[k] # <<>>) => ENABLED C_RecvData(k)
        /\ (cpc[k] = "send" /\ ws[k].st = "open") => ENABLED C_Send(k)
        /\ LocalReadBlocked(k) => (PumpRunning(wpc[k]) => ENABLED WsPump(k) \/ RemoteRecvBlocked(k))
        /\ RemoteRecvBlocked(k) => (PumpRunning(cpc[k]) => ENABLED ClientPump(k))

\* remote data reached the local socket while the local->remote pump has been
\* waiting in its first read all along, and the remote->local pump waits again
C13_Witness ==
    \E k \in Pairs :
        /\ LocalReadBlocked(k) /\ reads[k] = <<>>
        /\ clientOut[k] # <<>>
        /\ RemoteRecvBlocked(k)

\* the threads of pair k have been created
Started(k) == cpc[k] # "unstarted"

\* C14: every accepted client gets exactly one create_connection call: none before
\* its accept, one once the loop is past the call, never a second one; an open
\* that failed leaves the loop with no stream and no thread for that client; the
\* stream handed to the threads of a pair is the one opened after that pair's
\* accept, so no two pairs are handed the same stream.
C14_OneOpenPerAccept ==
    /\ \A k \in Pairs :
          /\ opens[k] <= 1
          /\ k > nPairs => opens[k] = 0
          /\ (k < nPairs \/ (k = nPairs /\ loopPc # "connect")) => opens[k] = 1
          /\ ws[k].st # "none" => opens[k] = 1
          /\ Started(k) => cargs[k].ws = k /\ wargs[k].ws = k /\ ws[k].st # "none"
    /\ \A j, k \in Pairs : (Started(j) /\ Started(k) /\ j # k) => cargs[j].ws # cargs[k].ws
    /\ loopPc = "raised" =>
          /\ opens[nPairs] = 1
          /\ ws[nPairs].st = "none"
          /\ ~Started(nPairs)

\* the second client's stream was opened after the first pair's stream was closed,
\* and the second pair relays on its own stream
C14_Witness ==
    /\ nPairs = 2
    /\ opens[1] = 1 /\ opens[2] = 1
    /\ ws[1].st = "closed" /\ ws[2].st = "open"
    /\ cpc[2] = "send" /\ cargs[2].ws = 2

\* C15: of two TunnelServer constructions on the same port, whatever their
\* interleaving, at most one ends up holding a socket bound to that port; and the
\* socket of a constructed TunnelServer stays bound to it.
C15_PortExclusivelyOwned ==
    /\ ~(sock \in {"bound", "listening"} /\ rivalSock = "bound")
    /\ ctorPc = "done" => sock \in {"bound", "listening"}

\* listen_to_client of pair k caught the 60 s timeout while the remote stream is
\* open, not closed by the remote, and its pump is running
TimedOutRemoteLive(k) ==
    /\ cfault[k] = "timeout"
    /\ cpc[k] = "exc_close_client"
    /\ ws[k].st = "open" /\ ~remoteClosed[k]
    /\ PumpRunning(wpc[k])

\* C16: the receive timeout of the local socket is taken by the local->remote
\* pump as an error: the pump is on its closing path, never dead of the exception;
\* it closes both endpoints and returns, the remote->local pump returns too, also
\* when the remote is still open, and the loop is back at accept.
C16_LocalTimeoutEndsPair ==
    /\ [](\A k \in Pairs : cfault[k] = "timeout" => cpc[k] \in {"exc_close_client", "exc_close_ws"})
    /\ \A k \in Pairs : (cfault[k] = "timeout") ~> PairGone(k)

\* the timeout was caught while a message of the remote waits to be received
C16_Witness ==
    \E k \in Pairs : TimedOutRemoteLive(k) /\ wsIn[k] # <<>> /\ wpc[k] = "recv"

\* what a step may change of pair j: its two endpoints, their pending input, and
\* what was read from and written to them
PairState(j) ==
    <<client[j], ws[j], clientIn[j], clientEof[j], wsIn[j], remoteClosed[j],
      reads[j], wsSent[j], wsRecvd[j], clientOut[j]>>

\* C17: both threads of pair k are started with the socket of the k-th accept and
\* the stream opened after it; a step of a thread of pair k changes nothing of any
\* other pair: no byte read, written or pending, no close; whatever is written to
\* an endpoint of pair k was read from the other endpoint of pair k.
C17_PairsIsolated ==
    /\ [](\A k \in Pairs :
            /\ Started(k) => cargs[k] = wargs[k] /\ cargs[k].client = k /\ cargs[k].ws = k
            /\ IsPrefix(Flatten(wsSent[k]), Flatten(reads[k]))
            /\ IsPrefix(clientOut[k], Flatten(wsRecvd[k])))
    /\ [][\A k \in Pairs :
            (cpc'[k] # cpc[k] \/ wpc'[k] # wpc[k]) =>
                \A j \in Pairs \ {k} : PairState(j)' = PairState(j)]_vars
    /\ [][\A j \in Pairs :
            (client'[j] # client[j] \/ ws'[j] # ws[j]) =>
                (j = nPairs' /\ \A i \in Pairs \ {j} : ~PairActive(i))]_vars

\* the second pair relays a message of its own after the first pair, which relayed
\* another, was closed
C17_Witness ==
    /\ nPairs = 2
    /\ BothClosed(1) /\ clientOut[1] = <<65>>
    /\ client[2].st = "open" /\ ws[2].st = "open"
    /\ clientOut[2] = <<66, 65>>

\* C18: index changes only in the loop, by one, when the threads of a new pair are
\* about to be created and no pump of any pair runs; it counts the pairs whose
\* threads were created, one for every stream opened; both threads of a pair are
\* given the same value, the number of pairs created up to and including theirs.
C18_IndexCountsPairs ==
    /\ [](/\ index = Cardinality({k \in Pairs : Started(k)})
          /\ index = Cardinality({k \in Pairs : ws[k].st # "none"}) - (IF loopPc = "spawn" THEN 1 ELSE 0)
          /\ \A k \in Pairs :
                Started(k) =>
                    /\ cargs[k].index = wargs[k].index
                    /\ cargs[k].index = Cardinality({j \in 1..k : Started(j)}))
    /\ [][index' # index =>
            /\ index' = index + 1
            /\ loopPc = "spawn"
            /\ \A k \in Pairs : ~PairActive(k)]_vars

C18_Witness ==
    /\ nPairs = 2 /\ index = 2
    /\ cargs[1].index = 1 /\ wargs[1].index = 1
    /\ cargs[2].index = 2 /\ wargs[2].index = 2
    /\ PumpRunning(cpc[2]) /\ PumpRunning(wpc[2])

====
